---- MODULE Spec2Model ----
(***************************************************************************)
(* A model of the viewer of scripts/minimal.py: the perspective camera     *)
(* (rotate / pan / zoom), the mouse tracker, the event handlers of the     *)
(* OpenGL view, and the renderable objects (network, mesh) with the GL     *)
(* buffers and vertex arrays they allocate and the draw calls they issue.  *)
(*                                                                         *)
(* Numbers.  The camera computes with Python floats.  The model computes   *)
(* exactly, in the field Q(sqrt 3): a number is a record [a, b, d] that    *)
(* stands for (a + b*sqrt(3)) / d, with d > 0 and gcd(a, b, d) = 1.  The   *)
(* sines and cosines of the multiples of 30 degrees all lie in this field, *)
(* so with pointer deltas that are multiples of 30 pixels (rotation_delta  *)
(* is 1 degree per pixel) every camera value is represented exactly.       *)
(***************************************************************************)
EXTENDS Integers, Sequences, FiniteSets, TLC

\* ------------------------------------------------------------------------
\* Bounds of the model
\* ------------------------------------------------------------------------

\* Camera operations (rotate, pan, zoom) in one behaviour.
MaxOps == 2

\* ------------------------------------------------------------------------
\* Exact arithmetic in Q(sqrt 3)
\* ------------------------------------------------------------------------

Abs(n) == IF n < 0 THEN -n ELSE n

RECURSIVE GCD(_, _)
GCD(m, n) == IF n = 0 THEN m ELSE GCD(n, m % n)

\* (a + b*sqrt 3) / d in lowest terms, d > 0.
Q3(a, b, d) ==
    LET s == IF d < 0 THEN -1 ELSE 1
        g == GCD(GCD(Abs(a), Abs(b)), Abs(d))
    IN  [a |-> (s * a) \div g, b |-> (s * b) \div g, d |-> (s * d) \div g]

Rat(n, d) == Q3(n, 0, d)
Num(n) == [a |-> n, b |-> 0, d |-> 1]

LCM(m, n) == (m \div GCD(m, n)) * n

QAdd(x, y) ==
    LET l == LCM(x.d, y.d)
    IN  Q3(x.a * (l \div x.d) + y.a * (l \div y.d),
           x.b * (l \div x.d) + y.b * (l \div y.d), l)

QNeg(x) == [a |-> -x.a, b |-> -x.b, d |-> x.d]

QSub(x, y) == QAdd(x, QNeg(y))

\* Cross-cancel first, so that the products stay small.
QMul(x, y) ==
    LET g1 == GCD(GCD(Abs(x.a), Abs(x.b)), y.d)
        g2 == GCD(GCD(Abs(y.a), Abs(y.b)), x.d)
        xa == x.a \div g1   xb == x.b \div g1   yd == y.d \div g1
        ya == y.a \div g2   yb == y.b \div g2   xd == x.d \div g2
    IN  Q3(xa * ya + 3 * xb * yb, xa * yb + xb * ya, xd * yd)

\* The sign of a + b*sqrt 3: compare a^2 with 3*b^2 when the signs differ.
QSign(x) ==
    IF x.a >= 0 /\ x.b >= 0 THEN (IF x.a = 0 /\ x.b = 0 THEN 0 ELSE 1)
    ELSE IF x.a <= 0 /\ x.b <= 0 THEN -1
    ELSE IF x.a > 0 THEN (IF x.a * x.a > 3 * x.b * x.b THEN 1 ELSE -1)
    ELSE (IF 3 * x.b * x.b > x.a * x.a THEN 1 ELSE -1)

QPos(x) == QSign(x) = 1

\* sin of a multiple of 30 degrees, as twice its value: 2*sin(30*k).
Sin2Table ==
    << <<0, 0>>, <<1, 0>>, <<0, 1>>, <<2, 0>>, <<0, 1>>, <<1, 0>>,
       <<0, 0>>, <<-1, 0>>, <<0, -1>>, <<-2, 0>>, <<0, -1>>, <<-1, 0>> >>

\* math.sin(math.radians(deg)) and math.cos(math.radians(deg)), deg in 30*Int.
sin(deg) ==
    LET e == Sin2Table[((deg \div 30) % 12) + 1] IN Q3(e[1], e[2], 2)

cos(deg) == sin(deg + 90)

\* ------------------------------------------------------------------------
\* State
\* ------------------------------------------------------------------------

VARIABLES
    camera,       \* PerspectiveCamera: distance, target, rx, rz, tx, ty
    mouse,        \* Mouse: pos, last_pos
    redraw,       \* an update() has been requested and no paintGL has run since
    ev,           \* the callback invoked last, with its event
    nops,         \* camera operations performed so far
    objects,      \* View.objects: a dict, as its items in insertion order
    gl,           \* the GL context: buffers, vertex arrays, bindings, uniform
    program,      \* View.program: 0 until initializeGL has linked it
    initialized,  \* initializeGL has been called
    alive,        \* the process is running
    drawCalls,    \* the glDrawArrays calls of the last frame, in order
    drawn,        \* the keys of the objects whose draw the last frame called
    error         \* the exception the last callback raised, or "none"

vars == <<camera, mouse, redraw, ev, nops, objects, gl, program, initialized,
          alive, drawCalls, drawn, error>>

viewVars == <<camera, mouse, redraw, nops>>
sceneVars == <<objects, gl, program, initialized, alive, drawCalls, drawn>>

\* ------------------------------------------------------------------------
\* PerspectiveCamera
\* ------------------------------------------------------------------------

zoom_delta == Rat(5, 100)
rotation_delta == Num(1)
pan_delta == Rat(1, 10)

\* Mutant of dx: the difference taken the wrong way round.
dx_reversed(m) == m.last_pos[1] - m.pos[1]

\* Mouse.dx, Mouse.dy
dx(m) == m.pos[1] - m.last_pos[1]
dy(m) == m.pos[2] - m.last_pos[2]

\* PerspectiveCamera.__init__ with the default target and distance.
PerspectiveCamera ==
    [distance |-> Num(10),
     target   |-> <<Num(0), Num(0), Num(0)>>,
     rx       |-> -60,
     rz       |-> -30,
     tx       |-> Num(0),
     ty       |-> Num(0)]

\* PerspectiveCamera.rotate (rotation_delta is 1, the angles stay integers)
rotate(c, m) ==
    [c EXCEPT !.rx = c.rx + rotation_delta.a * dy(m),
              !.rz = c.rz + rotation_delta.a * dx(m)]

\* Mutant of pan: target.z is nudged by dz and the distance is left alone.
pan_keeps_distance(c, m) ==
    LET dz1 == QMul(QMul(QMul(Num(dy(m)), sin(c.rx)), pan_delta),
                    QMul(c.distance, Rat(1, 10)))
    IN  [c EXCEPT !.target[3] = QSub(@, dz1)]

\* Mutant of pan: target.x is recomputed from ty.
pan_swaps_target(c, m) ==
    LET tx1 == QAdd(c.tx, QMul(pan_delta, Num(dx(m))))
        ty1 == QSub(c.ty, QMul(pan_delta, Num(dy(m))))
    IN  [c EXCEPT !.tx = tx1, !.ty = ty1,
                  !.target = <<QNeg(ty1), QNeg(ty1), c.target[3]>>]

\* PerspectiveCamera.pan
pan(c, m) ==
    LET sinrz == sin(c.rz)
        cosrz == cos(c.rz)
        sinrx == sin(c.rx)
        cosrx == cos(c.rx)
        mdx == Num(dx(m))
        mdy == Num(dy(m))
        scale == QMul(c.distance, Rat(1, 10))
        dx0 == QSub(QMul(mdx, cosrz), QMul(QMul(mdy, sinrz), cosrx))
        dy0 == QAdd(QMul(QMul(mdy, cosrz), cosrx), QMul(mdx, sinrz))
        dz0 == QMul(QMul(mdy, sinrx), pan_delta)
        dx1 == QMul(dx0, scale)
        dy1 == QMul(dy0, scale)
        dz1 == QMul(dz0, scale)
        tx1 == QAdd(c.tx, QMul(pan_delta, dx1))
        ty1 == QSub(c.ty, QMul(pan_delta, dy1))
    IN  [c EXCEPT !.tx = tx1,
                  !.ty = ty1,
                  !.target = <<QNeg(tx1), QNeg(ty1), QSub(c.target[3], dz1)>>,
                  !.distance = QSub(c.distance, dz1)]

\* Mutant of zoom: an additive zoom, distance -= steps * zoom_delta.
zoom_additive(c, steps) ==
    [c EXCEPT !.distance = QSub(c.distance, QMul(steps, zoom_delta))]

\* PerspectiveCamera.zoom
zoom(c, steps) ==
    [c EXCEPT !.distance =
         QSub(c.distance, QMul(QMul(steps, zoom_delta), c.distance))]

\* ------------------------------------------------------------------------
\* The GL context
\* ------------------------------------------------------------------------

\* GL.GL_BUFFER_SIZE, the enum (0x8764) that the draw methods pass as count.
GL_BUFFER_SIZE == 34660

\* A fresh context: no buffer, no vertex array, nothing bound, and the
\* shader's "uniform bool is_selected = false".
NewContext ==
    [buffers |-> <<>>, vaos |-> <<>>, array_buffer |-> 0, vao |-> 0,
     is_selected |-> FALSE]

\* GL.glGenVertexArrays(1): the new name is Len(vaos).
glGenVertexArrays(g) ==
    [g EXCEPT !.vaos = Append(@, [attrib |-> <<0, 0>>, enabled |-> {}])]

glBindVertexArray(g, v) == [g EXCEPT !.vao = v]

glEnableVertexAttribArray(g, loc) ==
    [g EXCEPT !.vaos[g.vao].enabled = @ \cup {loc}]

\* GL.glBindBuffer(GL.GL_ARRAY_BUFFER, b)
glBindBuffer(g, b) == [g EXCEPT !.array_buffer = b]

\* GL.glVertexAttribPointer(loc, 3, GL_FLOAT, ...): attribute loc of the bound
\* vertex array reads the buffer bound to GL_ARRAY_BUFFER.
glVertexAttribPointer(g, loc) ==
    [g EXCEPT !.vaos[g.vao].attrib[loc + 1] = g.array_buffer]

\* make_vertex_buffer: a new buffer holding the floats of data, left bound to
\* GL_ARRAY_BUFFER; the new name is Len(buffers).
make_vertex_buffer(g, data) ==
    [g EXCEPT !.buffers = Append(@, data),
              !.array_buffer = Len(g.buffers) + 1]

\* compas.utilities.flatten of a list of triples
RECURSIVE flatten(_)
flatten(triples) ==
    IF triples = <<>> THEN <<>> ELSE Head(triples) \o flatten(Tail(triples))

\* ------------------------------------------------------------------------
\* Renderable objects
\* ------------------------------------------------------------------------

\* Colours, in tenths.
default_color_nodes == <<1, 1, 1>>
default_color_edges_network == <<4, 4, 4>>
default_color_vertices == <<1, 1, 1>>
default_color_edges_mesh == <<2, 2, 2>>
default_color_front == <<8, 8, 8>>
default_color_back == <<10, 5, 7>>

\* ShapeObject overrides the four colours of MeshObject.
default_color_vertices_shape == <<1, 1, 1>>
default_color_edges_shape == <<2, 2, 2>>
default_color_front_shape == <<6, 6, 6>>
default_color_back_shape == <<4, 4, 4>>

\* self.default_color_<kind> of a MeshObject or a ShapeObject
Color(o, kind) ==
    IF o.otype = "ShapeObject"
    THEN [vertices |-> default_color_vertices_shape,
          edges |-> default_color_edges_shape,
          front |-> default_color_front_shape,
          back |-> default_color_back_shape][kind]
    ELSE [vertices |-> default_color_vertices,
          edges |-> default_color_edges_mesh,
          front |-> default_color_front,
          back |-> default_color_back][kind]

\* The entries of a property's two lists, one per element of keys.
RECURSIVE Entries(_, _)
Entries(keys, xyz) ==
    IF keys = <<>> THEN <<>>
    ELSE <<xyz[Head(keys)]>> \o Entries(Tail(keys), xyz)

Repeat(x, n) == [i \in 1..n |-> x]

\* The two buffers a property builds: the positions, then the colours.
Upload(g, positions, color) ==
    LET g1 == make_vertex_buffer(g, flatten(positions))
        g2 == make_vertex_buffer(g1, flatten(Repeat(color, Len(positions))))
    IN  [g |-> g2, vertices |-> Len(g.buffers) + 1,
         colors |-> Len(g.buffers) + 2, raised |-> FALSE]

\* Mutant of Endpoints: only the first endpoint of an edge is appended.
RECURSIVE Endpoints_first_only(_)
Endpoints_first_only(edges) ==
    IF edges = <<>> THEN <<>>
    ELSE <<Head(edges)[1]>> \o Endpoints_first_only(Tail(edges))

\* The endpoints of the edges, in edge order.
RECURSIVE Endpoints(_)
Endpoints(edges) ==
    IF edges = <<>> THEN <<>>
    ELSE <<Head(edges)[1], Head(edges)[2]>> \o Endpoints(Tail(edges))

\* NetworkObject.nodes
NetworkObject_nodes(g, data) ==
    Upload(g, Entries(data.keys, data.xyz), default_color_nodes)

\* NetworkObject.edges
NetworkObject_edges(g, data) ==
    Upload(g, Entries(Endpoints(data.edges), data.xyz),
           default_color_edges_network)

\* MeshObject.vertices, of the object o (self): over self.mesh
MeshObject_vertices(g, o) ==
    Upload(g, Entries(o.mesh.keys, o.mesh.xyz), Color(o, "vertices"))

\* MeshObject.edges
MeshObject_edges(g, o) ==
    Upload(g, Entries(Endpoints(o.mesh.edges), o.mesh.xyz),
           Color(o, "edges"))

\* The element of a singleton.
Only(S) == CHOOSE x \in S : TRUE

Reverse(s) == [i \in 1..Len(s) |-> s[Len(s) + 1 - i]]

\* Mutant of Triangles: a quadrilateral split as (a, b, c), (b, c, d).
Triangles_strip(vertices) ==
    IF Len(vertices) = 3 THEN vertices
    ELSE <<vertices[1], vertices[2], vertices[3],
           vertices[2], vertices[3], vertices[4]>>

\* The vertex keys a face contributes: a triangle as it is, a quadrilateral
\* (a, b, c, d) as (a, b, c), (a, c, d).
Triangles(vertices) ==
    IF Len(vertices) = 3 THEN vertices
    ELSE <<vertices[1], vertices[2], vertices[3],
           vertices[1], vertices[3], vertices[4]>>

Supported(vertices) == Len(vertices) \in {3, 4}

\* The loop over mesh.faces() of front and back: the keys appended so far,
\* until a face that is neither a triangle nor a quadrilateral raises.
RECURSIVE FaceKeys(_, _)
FaceKeys(faces, reversed) ==
    IF faces = <<>> THEN [keys |-> <<>>, raised |-> FALSE]
    ELSE LET vertices == IF reversed THEN Reverse(Head(faces)) ELSE Head(faces)
         IN  IF ~Supported(vertices) THEN [keys |-> <<>>, raised |-> TRUE]
             ELSE LET rest == FaceKeys(Tail(faces), reversed)
                  IN  [keys |-> Triangles(vertices) \o rest.keys,
                       raised |-> rest.raised]

\* MeshObject.front: raises NotImplementedError before it makes any buffer.
MeshObject_front(g, o) ==
    LET f == FaceKeys(o.mesh.faces, FALSE)
    IN  IF f.raised
        THEN [g |-> g, vertices |-> 0, colors |-> 0, raised |-> TRUE]
        ELSE Upload(g, Entries(f.keys, o.mesh.xyz), Color(o, "front"))

\* MeshObject.back
MeshObject_back(g, o) ==
    LET f == FaceKeys(o.mesh.faces, TRUE)
    IN  IF f.raised
        THEN [g |-> g, vertices |-> 0, colors |-> 0, raised |-> TRUE]
        ELSE Upload(g, Entries(f.keys, o.mesh.xyz), Color(o, "back"))

\* self.edges, self.nodes, self.front, ... of the object o: each read of a
\* property runs it.
Property(name, g, o) ==
    CASE name = "NetworkObject.edges" -> NetworkObject_edges(g, o.data)
      [] name = "NetworkObject.nodes" -> NetworkObject_nodes(g, o.data)
      [] name = "MeshObject.front" -> MeshObject_front(g, o)
      [] name = "MeshObject.back" -> MeshObject_back(g, o)
      [] name = "MeshObject.edges" -> MeshObject_edges(g, o)
      [] name = "MeshObject.vertices" -> MeshObject_vertices(g, o)

NoVao == [edges |-> 0, nodes |-> 0, front |-> 0, back |-> 0, vertices |-> 0]

\* The body of NetworkObject.init, statement by statement.  "glBindBuffer" of
\* (property, key) stands for GL.glBindBuffer(GL_ARRAY_BUFFER, self.<property>[key]).
NetworkObject_init_calls ==
    << <<"glGenVertexArrays", "edges">>,
       <<"glGenVertexArrays", "nodes">>,
       <<"glBindVertexArray", "edges">>,
       <<"glEnableVertexAttribArray", 0>>,
       <<"glBindBuffer", "NetworkObject.edges", "vertices">>,
       <<"glVertexAttribPointer", 0>>,
       <<"glEnableVertexAttribArray", 1>>,
       <<"glBindBuffer", "NetworkObject.edges", "colors">>,
       <<"glVertexAttribPointer", 1>>,
       <<"glBindVertexArray", "nodes">>,
       <<"glEnableVertexAttribArray", 0>>,
       <<"glBindBuffer", "NetworkObject.nodes", "vertices">>,
       <<"glVertexAttribPointer", 0>>,
       <<"glEnableVertexAttribArray", 1>>,
       <<"glBindBuffer", "NetworkObject.nodes", "colors">>,
       <<"glVertexAttribPointer", 1>>,
       <<"glBindVertexArray(0)">> >>

\* The body of MeshObject.init, statement by statement.
MeshObject_init_calls ==
    << <<"glGenVertexArrays", "front">>,
       <<"glGenVertexArrays", "back">>,
       <<"glGenVertexArrays", "edges">>,
       <<"glGenVertexArrays", "vertices">>,
       <<"glBindVertexArray", "front">>,
       <<"glEnableVertexAttribArray", 0>>,
       <<"glBindBuffer", "MeshObject.front", "vertices">>,
       <<"glVertexAttribPointer", 0>>,
       <<"glEnableVertexAttribArray", 1>>,
       <<"glBindBuffer", "MeshObject.front", "colors">>,
       <<"glVertexAttribPointer", 1>>,
       <<"glBindVertexArray", "back">>,
       <<"glEnableVertexAttribArray", 0>>,
       <<"glBindBuffer", "MeshObject.back", "vertices">>,
       <<"glVertexAttribPointer", 0>>,
       <<"glEnableVertexAttribArray", 1>>,
       <<"glBindBuffer", "MeshObject.back", "colors">>,
       <<"glVertexAttribPointer", 1>>,
       <<"glBindVertexArray", "edges">>,
       <<"glEnableVertexAttribArray", 0>>,
       <<"glBindBuffer", "MeshObject.edges", "vertices">>,
       <<"glVertexAttribPointer", 0>>,
       <<"glEnableVertexAttribArray", 1>>,
       <<"glBindBuffer", "MeshObject.edges", "colors">>,
       <<"glVertexAttribPointer", 1>>,
       <<"glBindVertexArray", "vertices">>,
       <<"glEnableVertexAttribArray", 0>>,
       <<"glBindBuffer", "MeshObject.vertices", "vertices">>,
       <<"glVertexAttribPointer", 0>>,
       <<"glEnableVertexAttribArray", 1>>,
       <<"glBindBuffer", "MeshObject.vertices", "colors">>,
       <<"glVertexAttribPointer", 1>>,
       <<"glBindVertexArray(0)">> >>

\* One statement of an init, on st = [g: the context, vao: self._vao, raised].
\* (x \in {e} binds x to the value of e.)
Call(st, c, o) ==
    CASE c[1] = "glGenVertexArrays" ->
           [st EXCEPT !.g = glGenVertexArrays(@),
                      !.vao[c[2]] = Len(st.g.vaos) + 1]
      [] c[1] = "glBindVertexArray" ->
           [st EXCEPT !.g = glBindVertexArray(@, st.vao[c[2]])]
      [] c[1] = "glBindVertexArray(0)" ->
           [st EXCEPT !.g = glBindVertexArray(@, 0)]
      [] c[1] = "glEnableVertexAttribArray" ->
           [st EXCEPT !.g = glEnableVertexAttribArray(@, c[2])]
      [] c[1] = "glVertexAttribPointer" ->
           [st EXCEPT !.g = glVertexAttribPointer(@, c[2])]
      [] c[1] = "glBindBuffer" ->
           Only({IF p.raised
                 THEN [st EXCEPT !.g = p.g, !.raised = TRUE]
                 ELSE [st EXCEPT !.g = glBindBuffer(p.g, p[c[3]])] :
                 p \in {Property(c[2], st.g, o)}})

\* The statements in order, up to the first that raises.
RECURSIVE Run(_, _, _)
Run(st, calls, o) ==
    IF calls = <<>> \/ st.raised THEN st
    ELSE Only({Run(st1, Tail(calls), o) :
               st1 \in {Call(st, Head(calls), o)}})

\* What an init returns: the context, the object with its _vao, the exception.
Initialized(st, o) ==
    [g |-> st.g, o |-> [o EXCEPT !.vao = st.vao],
     error |-> IF st.raised THEN "NotImplementedError" ELSE "none"]

\* NetworkObject.init
NetworkObject_init(g, o) ==
    Only({Initialized(st, o) :
          st \in {Run([g |-> g, vao |-> NoVao, raised |-> FALSE],
                      NetworkObject_init_calls, o)}})

\* MeshObject.init (ShapeObject inherits it)
MeshObject_init(g, o) ==
    Only({Initialized(st, o) :
          st \in {Run([g |-> g, vao |-> NoVao, raised |-> FALSE],
                      MeshObject_init_calls, o)}})

\* obj.init(), by the class of the object
init(g, o) ==
    IF o.otype = "NetworkObject" THEN NetworkObject_init(g, o)
    ELSE MeshObject_init(g, o)

\* GL.glDrawArrays(mode, 0, count) with vertex array v bound.
DrawCall(key, pass, mode, count, v, uniform) ==
    [obj |-> key, pass |-> pass, mode |-> mode, first |-> 0, count |-> count,
     vao |-> v, is_selected |-> uniform]

\* self._vao[...] of an object whose init has not run: _vao is None.
Uninitialized(o) == o.vao = NoVao

\* The vertex array left bound by the glBindVertexArray calls of a draw: that
\* of the last pass, or the one bound before when there is no pass.
LastBound(o, passes, bound) ==
    IF passes = <<>> THEN bound ELSE o.vao[passes[Len(passes)]]

\* NetworkObject.draw, with the uniform as it is and vertex array bound as it
\* is before: the calls it issues, the uniform and the vertex array binding
\* it leaves, and the exception it raises.
NetworkObject_draw(o, uniform, bound) ==
    LET passes == (IF o.show_edges THEN <<"edges">> ELSE <<>>)
                  \o (IF o.show_points THEN <<"nodes">> ELSE <<>>)
        mode == [edges |-> "GL_LINES", nodes |-> "GL_POINTS"]
    IN  IF passes # <<>> /\ Uninitialized(o)
        THEN [calls |-> <<>>, uniform |-> uniform, vao |-> bound,
              error |-> "TypeError"]
        ELSE [calls |-> [i \in 1..Len(passes) |->
                           DrawCall(o.key, passes[i], mode[passes[i]],
                                    GL_BUFFER_SIZE, o.vao[passes[i]], uniform)],
              uniform |-> uniform, vao |-> LastBound(o, passes, bound),
              error |-> "none"]

\* MeshObject.draw (ShapeObject inherits it)
MeshObject_draw(o, uniform, bound) ==
    LET faces == IF o.show_faces THEN <<"front", "back">> ELSE <<>>
        rest == (IF o.show_edges THEN <<"edges">> ELSE <<>>)
                \o (IF o.show_points THEN <<"vertices">> ELSE <<>>)
        mode == [front |-> "GL_TRIANGLES", back |-> "GL_TRIANGLES",
                 edges |-> "GL_LINES", vertices |-> "GL_POINTS"]
        \* glUniform1i(is_selected, self.is_selected) ... glUniform1i(.., 0)
        ufaces == IF o.show_faces THEN o.is_selected ELSE uniform
        uafter == IF o.show_faces THEN FALSE ELSE uniform
    IN  IF faces \o rest # <<>> /\ Uninitialized(o)
        THEN [calls |-> <<>>, uniform |-> ufaces, vao |-> bound,
              error |-> "TypeError"]
        ELSE [calls |->
                [i \in 1..Len(faces) |->
                   DrawCall(o.key, faces[i], mode[faces[i]], GL_BUFFER_SIZE,
                            o.vao[faces[i]], ufaces)]
                \o [i \in 1..Len(rest) |->
                   DrawCall(o.key, rest[i], mode[rest[i]], GL_BUFFER_SIZE,
                            o.vao[rest[i]], uafter)],
              uniform |-> uafter, vao |-> LastBound(o, faces \o rest, bound),
              error |-> "none"]

\* obj.draw(program), by the class of the object
draw(o, uniform, bound) ==
    IF o.otype = "NetworkObject" THEN NetworkObject_draw(o, uniform, bound)
    ELSE MeshObject_draw(o, uniform, bound)

\* ------------------------------------------------------------------------
\* Geometry data (the external geometry kernel)
\* ------------------------------------------------------------------------

\* The xyz of element k.
Coordinates(n) == [k \in 1..n |-> <<k, k * k, 0>>]

Pairs(n) == {p \in (1..n) \X (1..n) : p[1] < p[2]}

SeqsUpTo(S, n) == UNION {[1..k -> S] : k \in 0..n}

\* Networks of at most MaxNodes nodes and MaxEdges edges.
MaxNodes == 4
MaxEdges == 3

Network(n, edges) ==
    [id |-> 1, dtype |-> "Network", keys |-> [k \in 1..n |-> k],
     xyz |-> Coordinates(n), edges |-> edges, faces |-> <<>>]

Networks ==
    UNION {{Network(n, es) : es \in SeqsUpTo(Pairs(n), MaxEdges)} :
           n \in 0..MaxNodes}

\* Meshes of at most MaxFaces faces over six vertices: triangles,
\* quadrilaterals and a pentagon.
MaxFaces == 2

FaceChoices ==
    {<<1, 2, 3>>, <<1, 2, 3, 4>>, <<4, 3, 5, 6>>, <<1, 2, 3, 4, 5>>}

FaceEdges(f) == [i \in 1..Len(f) |-> <<f[i], f[(i % Len(f)) + 1]>>]

RECURSIVE AllFaceEdges(_)
AllFaceEdges(faces) ==
    IF faces = <<>> THEN <<>>
    ELSE FaceEdges(Head(faces)) \o AllFaceEdges(Tail(faces))

RECURSIVE Dedupe(_, _)
Dedupe(es, seen) ==
    IF es = <<>> THEN <<>>
    ELSE LET k == {Head(es)[1], Head(es)[2]}
         IN  IF k \in seen THEN Dedupe(Tail(es), seen)
             ELSE <<Head(es)>> \o Dedupe(Tail(es), seen \cup {k})

\* mesh.edges(): every edge of every face, once.
Mesh(faces) ==
    [id |-> 2, dtype |-> "Mesh", keys |-> [k \in 1..6 |-> k],
     xyz |-> Coordinates(6), edges |-> Dedupe(AllFaceEdges(faces), {}),
     faces |-> faces]

Meshes == {Mesh(fs) : fs \in SeqsUpTo(FaceChoices, MaxFaces)}

\* Box.from_width_height_depth(2, 2, 2), by its to_vertices_and_faces(): the
\* eight corners and the six quadrilaterals.
Box ==
    [id |-> 4, dtype |-> "Box",
     xyz |-> << <<-1, -1, -1>>, <<-1, 1, -1>>, <<1, 1, -1>>, <<1, -1, -1>>,
                <<-1, -1, 1>>, <<1, -1, 1>>, <<1, 1, 1>>, <<-1, 1, 1>> >>,
     faces |-> << <<1, 2, 3, 4>>, <<1, 4, 6, 5>>, <<4, 3, 7, 6>>,
                  <<3, 2, 8, 7>>, <<2, 1, 5, 8>>, <<5, 6, 7, 8>> >>]

\* The shapes given as data.  (A Sphere and a Torus come as 10 x 10
\* tessellations; the ShapeObject treats them as it treats the Box.)
Shapes == {Box}

\* Mesh.from_shape(shape): the mesh of the vertices and faces of the shape.
from_shape(shape) ==
    [id |-> shape.id, dtype |-> "Mesh",
     keys |-> [k \in 1..Len(shape.xyz) |-> k], xyz |-> shape.xyz,
     edges |-> Dedupe(AllFaceEdges(shape.faces), {}), faces |-> shape.faces]

\* The keyword arguments of an add: the defaults, a selected object without
\* its points, and an object showing its points only.
Options ==
    {[is_selected |-> FALSE, show_points |-> TRUE, show_edges |-> TRUE,
      show_faces |-> TRUE],
     [is_selected |-> TRUE, show_points |-> FALSE, show_edges |-> TRUE,
      show_faces |-> TRUE],
     [is_selected |-> FALSE, show_points |-> TRUE, show_edges |-> FALSE,
      show_faces |-> FALSE]}

\* DTYPE_OTYPE
DTYPE_OTYPE ==
    [Box |-> "ShapeObject", Sphere |-> "ShapeObject", Torus |-> "ShapeObject",
     Mesh |-> "MeshObject", Network |-> "NetworkObject"]

\* A NetworkObject has no mesh.
NoMesh == <<>>

\* The data setter: self._mesh is the data of a MeshObject, and
\* Mesh.from_shape(data) for a ShapeObject.
SetData(otype, data) ==
    IF otype = "ShapeObject" THEN from_shape(data)
    ELSE IF otype = "MeshObject" THEN data
    ELSE NoMesh

\* NetworkObject.__init__, MeshObject.__init__
NewObject(data, kwargs) ==
    [key |-> data.id, otype |-> DTYPE_OTYPE[data.dtype], data |-> data,
     mesh |-> SetData(DTYPE_OTYPE[data.dtype], data),
     is_selected |-> kwargs.is_selected, show_points |-> kwargs.show_points,
     show_edges |-> kwargs.show_edges, show_faces |-> kwargs.show_faces,
     vao |-> NoVao]

\* ------------------------------------------------------------------------
\* Events
\* ------------------------------------------------------------------------

\* event.pos(): pointer positions, multiples of 30 pixels apart.
Points == {<<0, 0>>, <<30, 0>>, <<0, 120>>}

\* (isActiveWindow(), underMouse()); the second is not evaluated when the
\* first is false.
Gates == {<<TRUE, TRUE>>, <<TRUE, FALSE>>, <<FALSE, TRUE>>}

\* QWheelEvent.delta(): one notch of a wheel is 120; 3600 is thirty notches
\* delivered as one event.
WheelDeltas == {120, -120, 3600}

\* event.buttons(): the buttons held down during a move.
ButtonSets == SUBSET {"left", "right"}

NoPoint == <<0, 0>>

Event(kind, pos, buttons, delta, g) ==
    [kind |-> kind, pos |-> pos, buttons |-> buttons, delta |-> delta,
     active |-> g[1], under |-> g[2]]

MoveEvents ==
    {Event("move", p, b, 0, g) : p \in Points, b \in ButtonSets, g \in Gates}
PressEvents ==
    {Event("press", p, {}, 0, g) : p \in Points, g \in Gates}
ReleaseEvents ==
    {Event("release", NoPoint, {}, 0, g) : g \in Gates}
WheelEvents ==
    {Event("wheel", NoPoint, {}, d, g) : d \in WheelDeltas, g \in Gates}

\* A callback that carries no input event.
Callback(kind) == Event(kind, NoPoint, {}, 0, <<FALSE, FALSE>>)

\* Mutant of Gate: the test of underMouse() is forgotten.
Gate_active_only(e) == e.active

\* self.isActiveWindow() and self.underMouse()
Gate(e) == e.active /\ e.under

\* Qt delivers input events to the view once it is shown.  A behaviour of the
\* model ends its input after MaxOps camera operations.
Shown == alive /\ initialized /\ nops < MaxOps

\* ------------------------------------------------------------------------
\* View
\* ------------------------------------------------------------------------

\* The loop of initializeGL over self.objects, up to the first exception.
RECURSIVE InitAll(_, _, _)
InitAll(objs, i, g) ==
    IF i > Len(objs) THEN [objs |-> objs, g |-> g, error |-> "none"]
    ELSE Only({IF r.error # "none"
               THEN [objs |-> [objs EXCEPT ![i] = r.o], g |-> r.g,
                     error |-> r.error]
               ELSE InitAll([objs EXCEPT ![i] = r.o], i + 1, r.g) :
               r \in {init(g, objs[i])}})

\* View.initializeGL: the objects are initialized, then the program is made.
initializeGL ==
    /\ alive /\ ~initialized
    /\ \E r \in {InitAll(objects, 1, gl)} :
           /\ objects' = r.objs
           /\ gl' = r.g
           /\ error' = r.error
           /\ program' = IF r.error = "none" THEN 1 ELSE program
    /\ initialized' = TRUE
    /\ ev' = Callback("initializeGL")
    /\ UNCHANGED <<camera, mouse, redraw, nops, alive, drawCalls, drawn>>

\* View.resizeGL(width, height): it stores the size, sets the viewport and
\* uploads the projection, none of which the model keeps.  Without a program,
\* glUseProgram(self.program) raises.
resizeGL ==
    /\ alive /\ initialized
    /\ ev' = Callback("resizeGL")
    /\ error' = IF program = 0 THEN "AttributeError" ELSE "none"
    /\ UNCHANGED <<viewVars, sceneVars>>

\* The loop of paintGL over self.objects, up to the first exception: the
\* glDrawArrays calls, the objects whose draw was called, the uniform left.
RECURSIVE DrawAll(_, _, _, _)
DrawAll(objs, i, uniform, bound) ==
    IF i > Len(objs)
    THEN [calls |-> <<>>, drawn |-> <<>>, uniform |-> uniform, vao |-> bound,
          error |-> "none"]
    ELSE Only({IF r.error # "none"
               THEN [calls |-> r.calls, drawn |-> <<objs[i].key>>,
                     uniform |-> r.uniform, vao |-> r.vao, error |-> r.error]
               ELSE Only({[calls |-> r.calls \o rest.calls,
                           drawn |-> <<objs[i].key>> \o rest.drawn,
                           uniform |-> rest.uniform, vao |-> rest.vao,
                           error |-> rest.error] :
                          rest \in {DrawAll(objs, i + 1, r.uniform, r.vao)}}) :
               r \in {draw(objs[i], uniform, bound)}})

\* The objects whose draw has been called when the call of object key is made.
RECURSIVE UpTo(_, _)
UpTo(keys, key) ==
    IF keys = <<>> THEN <<>>
    ELSE IF Head(keys) = key THEN <<key>>
    ELSE <<Head(keys)>> \o UpTo(Tail(keys), key)

\* The vertices held by the position buffer of the vertex array of a call.
Uploaded(g, call) == Len(g.buffers[g.vaos[call.vao].attrib[1]]) \div 3

\* A draw call that reads past the end of its buffers.
OutOfBounds(g, call) == call.first + call.count > Uploaded(g, call)

\* View.paintGL.  A draw call that reads past its buffers is undefined: the
\* frame goes on, or the process ends at that call.
paintGL ==
    /\ alive /\ initialized
    /\ ev' = Callback("paintGL")
    /\ redraw' = FALSE
    /\ UNCHANGED <<camera, mouse, nops, objects, program, initialized>>
    /\ IF program = 0
       THEN /\ error' = "AttributeError"
            /\ drawCalls' = <<>>
            /\ drawn' = <<>>
            /\ UNCHANGED <<gl, alive>>
       ELSE \E r \in {DrawAll(objects, 1, gl.is_selected, gl.vao)} :
                \/ /\ drawCalls' = r.calls
                   /\ drawn' = r.drawn
                   /\ gl' = [gl EXCEPT !.is_selected = r.uniform,
                                       !.vao = r.vao]
                   /\ error' = r.error
                   /\ UNCHANGED alive
                \/ \E k \in 1..Len(r.calls) :
                     /\ OutOfBounds(gl, r.calls[k])
                     /\ drawCalls' = SubSeq(r.calls, 1, k)
                     /\ drawn' = UpTo(r.drawn, r.calls[k].obj)
                     /\ gl' = [gl EXCEPT !.is_selected = r.calls[k].is_selected,
                                         !.vao = r.calls[k].vao]
                     /\ error' = "none"
                     /\ alive' = FALSE

\* View.mouseMoveEvent
mouseMoveEvent(e) ==
    /\ Shown
    /\ ev' = e
    /\ error' = "none"
    /\ UNCHANGED sceneVars
    /\ IF Gate(e)
       THEN LET m1 == [mouse EXCEPT !.pos = e.pos] IN
            IF "left" \in e.buttons
            THEN /\ camera' = rotate(camera, m1)
                 /\ mouse' = [m1 EXCEPT !.last_pos = e.pos]
                 /\ redraw' = TRUE
                 /\ nops' = nops + 1
            ELSE IF "right" \in e.buttons
            THEN /\ camera' = pan(camera, m1)
                 /\ mouse' = [m1 EXCEPT !.last_pos = e.pos]
                 /\ redraw' = TRUE
                 /\ nops' = nops + 1
            ELSE /\ mouse' = m1
                 /\ UNCHANGED <<camera, redraw, nops>>
       ELSE UNCHANGED viewVars

\* View.mousePressEvent
mousePressEvent(e) ==
    /\ Shown
    /\ ev' = e
    /\ error' = "none"
    /\ UNCHANGED sceneVars
    /\ IF Gate(e)
       THEN /\ mouse' = [mouse EXCEPT !.last_pos = e.pos]
            /\ redraw' = TRUE
            /\ UNCHANGED <<camera, nops>>
       ELSE UNCHANGED viewVars

\* Mutant of mouseReleaseEvent: the call of update() is forgotten.
mouseReleaseEvent_no_update(e) ==
    /\ Shown
    /\ ev' = e
    /\ error' = "none"
    /\ UNCHANGED sceneVars
    /\ UNCHANGED viewVars

\* View.mouseReleaseEvent
mouseReleaseEvent(e) ==
    /\ Shown
    /\ ev' = e
    /\ error' = "none"
    /\ UNCHANGED sceneVars
    /\ IF Gate(e)
       THEN /\ redraw' = TRUE
            /\ UNCHANGED <<camera, mouse, nops>>
       ELSE UNCHANGED viewVars

\* View.wheelEvent: degrees = delta / 8, steps = degrees / 15.  Without a
\* program, glUseProgram(self.program) raises after the camera has zoomed.
wheelEvent(e) ==
    /\ Shown
    /\ ev' = e
    /\ UNCHANGED sceneVars
    /\ IF Gate(e)
       THEN /\ camera' = zoom(camera, Rat(e.delta, 8 * 15))
            /\ nops' = nops + 1
            /\ redraw' = IF program = 0 THEN redraw ELSE TRUE
            /\ error' = IF program = 0 THEN "AttributeError" ELSE "none"
            /\ UNCHANGED mouse
       ELSE /\ error' = "none"
            /\ UNCHANGED viewVars

\* ------------------------------------------------------------------------
\* Viewer
\* ------------------------------------------------------------------------

\* self.view.objects[key] = o: a new key is appended, a known key keeps its
\* place and gets the new value.
SetItem(objs, o) ==
    IF \E i \in 1..Len(objs) : objs[i].key = o.key
    THEN [i \in 1..Len(objs) |-> IF objs[i].key = o.key THEN o ELSE objs[i]]
    ELSE Append(objs, o)

\* Viewer.add
add(data, kwargs) ==
    /\ alive
    /\ objects' = SetItem(objects, NewObject(data, kwargs))
    /\ ev' = Callback("add")
    /\ error' = "none"
    /\ UNCHANGED <<camera, mouse, redraw, nops, gl, program, initialized,
                   alive, drawCalls, drawn>>

\* ------------------------------------------------------------------------
\* Specifications
\* ------------------------------------------------------------------------

\* Viewer.__init__: View.__init__ makes the camera, the mouse and the empty
\* dict of objects; the GL context has nothing in it yet.
Init ==
    /\ camera = PerspectiveCamera
    /\ mouse = [pos |-> <<0, 0>>, last_pos |-> <<0, 0>>]
    /\ redraw = FALSE
    /\ ev = Callback("none")
    /\ nops = 0
    /\ objects = <<>>
    /\ gl = NewContext
    /\ program = 0
    /\ initialized = FALSE
    /\ alive = TRUE
    /\ drawCalls = <<>>
    /\ drawn = <<>>
    /\ error = "none"

\* The viewer shown without objects, and the events of the pointer.
Next ==
    \/ initializeGL
    \/ resizeGL
    \/ paintGL
    \/ \E e \in MoveEvents : mouseMoveEvent(e)
    \/ \E e \in PressEvents : mousePressEvent(e)
    \/ \E e \in ReleaseEvents : mouseReleaseEvent(e)
    \/ \E e \in WheelEvents : wheelEvent(e)

Spec == Init /\ [][Next]_vars

\* Viewer.add(data) without keyword arguments.
Defaults ==
    [is_selected |-> FALSE, show_points |-> TRUE, show_edges |-> TRUE,
     show_faces |-> TRUE]

\* A mesh with a face of five vertices: its init raises in initializeGL, and
\* the view is left without a program.
Pentagon == Mesh(<< <<1, 2, 3, 4, 5>> >>)

\* The events of a set that pass the gate of the handlers.
Passing(events) == {e \in events : Gate(e)}

\* The viewer shown without objects, or with the pentagon added before it is
\* shown, and the pointer events that pass the gate (the others change
\* nothing, C3).
NextStartup ==
    \/ /\ objects = <<>> /\ ~initialized
       /\ add(Pentagon, Defaults)
    \/ initializeGL
    \/ resizeGL
    \/ paintGL
    \/ \E e \in Passing(MoveEvents) : mouseMoveEvent(e)
    \/ \E e \in Passing(PressEvents) : mousePressEvent(e)
    \/ \E e \in Passing(ReleaseEvents) : mouseReleaseEvent(e)
    \/ \E e \in Passing(WheelEvents) : wheelEvent(e)

SpecStartup == Init /\ [][NextStartup]_vars

\* One object of any geometry of the families, added before or after the
\* view is shown, and the frames drawn.
NextGeom ==
    \/ /\ objects = <<>>
       /\ \E d \in Networks \cup Meshes \cup Shapes, k \in Options : add(d, k)
    \/ initializeGL
    \/ resizeGL
    \/ paintGL

SpecGeom == Init /\ [][NextGeom]_vars

\* The geometry objects of a scene: a network, a mesh, a second network.
Catalogue ==
    {Network(2, << <<1, 2>> >>),
     Mesh(<< <<1, 2, 3, 4>> >>),
     [Network(1, <<>>) EXCEPT !.id = 3]}

\* A scene: objects of the catalogue added, and added again, at any time
\* before and after the view is shown, and the frames drawn.
NextScene ==
    \/ \E d \in Catalogue, k \in Options : add(d, k)
    \/ initializeGL
    \/ resizeGL
    \/ paintGL

SpecScene == Init /\ [][NextScene]_vars

\* ------------------------------------------------------------------------
\* Claims about the camera and the pointer events (under Spec)
\* ------------------------------------------------------------------------

InputKinds == {"move", "press", "release", "wheel"}

\* The event passed "window is focused and pointer is inside the surface".
Accepted(e) == e.kind \in InputKinds /\ e.active /\ e.under
Rejected(e) == e.kind \in InputKinds /\ ~(e.active /\ e.under)

\* A move with the left or the right button held.
Dragging(e) == e.kind = "move" /\ e.buttons \cap {"left", "right"} # {}

\* C1 (as claimed): from the default camera, the distance is strictly
\* positive in every state that zoom, pan and rotate can reach.
C1_DistancePositive == QPos(camera.distance)

\* C3: an input event received while the window is not focused or the pointer
\* is not inside the surface leaves the camera and the pointer tracker as
\* they were and requests no redraw.
C3_RejectedEventChangesNothing ==
    [][Rejected(ev') => UNCHANGED <<camera, mouse, redraw>>]_vars

\* C3 witness: a rejected move to a position other than the recorded one, with
\* a button that would have turned the camera, and no redraw pending.
C3_Witness ==
    /\ Rejected(ev) /\ Dragging(ev)
    /\ ev.pos # mouse.pos
    /\ ~redraw

\* C5 (as claimed): every accepted move sets previous := old current and
\* current := event position.
C5_MoveShiftsPositions ==
    [][(ev'.kind = "move" /\ Accepted(ev'))
         => (mouse'.pos = ev'.pos /\ mouse'.last_pos = mouse.pos)]_vars

\* C5 (amended): every accepted move sets current := event position.  With the
\* left or right button held the camera operation reads the delta from the
\* previous position to the event position, and previous := event position
\* afterwards (the delta is then zero); with no button held previous is left
\* as it was.
C5_MoveRecordsPosition ==
    [][(ev'.kind = "move" /\ Accepted(ev'))
         => /\ mouse'.pos = ev'.pos
            /\ IF Dragging(ev')
               THEN /\ mouse'.last_pos = ev'.pos
                    /\ "left" \in ev'.buttons
                         => /\ camera'.rz - camera.rz
                                 = ev'.pos[1] - mouse.last_pos[1]
                            /\ camera'.rx - camera.rx
                                 = ev'.pos[2] - mouse.last_pos[2]
               ELSE mouse'.last_pos = mouse.last_pos]_vars

\* C5 witness: after an accepted move without a button the previous position
\* is neither the event's nor the one recorded just before it; and a drag has
\* turned the camera.
C5_Witness ==
    /\ ev.kind = "move" /\ Accepted(ev) /\ ~Dragging(ev)
    /\ mouse.pos = ev.pos
    /\ mouse.last_pos # mouse.pos
    /\ camera.rz # PerspectiveCamera.rz

\* C6 (as claimed): every accepted input event requests a redraw.
C6_AcceptedEventRequestsRedraw ==
    [][Accepted(ev') => redraw']_vars

\* C6 (amended): an accepted press or release, and an accepted move with the
\* left or right button held, requests a redraw; an accepted move with neither
\* button held requests none; an accepted scroll requests a redraw, unless the
\* view has no program: it then raises AttributeError after the zoom and
\* requests none.
C6_RedrawUnlessHoverMove ==
    [][Accepted(ev')
         => IF ev'.kind = "move" /\ ~Dragging(ev')
            THEN redraw' = redraw
            ELSE IF ev'.kind = "wheel" /\ program = 0
            THEN redraw' = redraw /\ error' = "AttributeError"
            ELSE redraw']_vars

\* C6 witness: an accepted move with no button, and no redraw pending after
\* it, in a view left without a program whose camera only scrolls have moved
\* (each raised before it could request a redraw), after a press.
C6_Witness ==
    /\ ev.kind = "move" /\ Accepted(ev) /\ ev.buttons = {}
    /\ ~redraw
    /\ mouse.last_pos # <<0, 0>>
    /\ program = 0 /\ initialized
    /\ camera.distance # PerspectiveCamera.distance
    /\ camera = [PerspectiveCamera EXCEPT !.distance = camera.distance]

\* distance - target.z
DollyOffset(c) == QSub(c.distance, c.target[3])

\* C9: pan moves target.z and distance by the same dz, so distance - target.z
\* changes in no step other than a zoom.
C9_PanKeepsDollyOffset ==
    [][ev'.kind # "wheel" => DollyOffset(camera') = DollyOffset(camera)]_vars

\* C9 witness: a pan has moved target.z (and the distance with it).
C9_Witness ==
    /\ ev.kind = "move" /\ Accepted(ev) /\ "right" \in ev.buttons
    /\ "left" \notin ev.buttons
    /\ camera.target[3] # Num(0)
    /\ camera.distance # Num(10)

TargetFollows(c) ==
    /\ c.target[1] = QNeg(c.tx)
    /\ c.target[2] = QNeg(c.ty)

\* C10: with the default target, target.x = -tx and target.y = -ty in every
\* reachable state, and no step other than a pan changes tx, ty or target.
C10_TargetNegatesTranslation ==
    /\ TargetFollows(camera)
    /\ [][/\ TargetFollows(camera')
          /\ ~(Accepted(ev') /\ Dragging(ev') /\ "left" \notin ev'.buttons)
               => /\ camera'.tx = camera.tx
                  /\ camera'.ty = camera.ty
                  /\ camera'.target = camera.target]_vars

\* C10 witness: a pan has moved tx and ty away from 0, and a rotate or a zoom
\* has followed it.
C10_Witness ==
    /\ camera.tx # Num(0) /\ camera.ty # Num(0)
    /\ Accepted(ev)
    /\ ev.kind = "wheel" \/ "left" \in ev.buttons

\* steps = event.delta() / 8 / 15
Steps(e) == Rat(e.delta, 8 * 15)

\* d * (1 - steps * k_zoom)
Scaled(d, steps) == QMul(d, QSub(Num(1), QMul(steps, zoom_delta)))

\* zoom(1) followed by zoom(-1) takes the distance d to d * (1 - k_zoom^2),
\* which is k_zoom^2 * d away from d, and is d only when d is 0.
RoundTrip(c) ==
    LET back == zoom(zoom(c, Num(1)), Num(-1))
        k2 == QMul(zoom_delta, zoom_delta)
    IN  /\ back = [c EXCEPT !.distance = QMul(c.distance, QSub(Num(1), k2))]
        /\ QSub(c.distance, back.distance) = QMul(k2, c.distance)
        /\ (back.distance = c.distance) <=> (c.distance = Num(0))

\* C11: an accepted scroll of steps replaces the distance d by
\* d * (1 - steps * k_zoom) and changes no other field of the camera; and from
\* every camera reached, zoom(1) then zoom(-1) leaves d * (1 - k_zoom^2).
C11_ZoomScalesDistance ==
    /\ RoundTrip(camera)
    /\ [][/\ camera' # camera => RoundTrip(camera')
          /\ (ev'.kind = "wheel" /\ Accepted(ev'))
               => camera' = [camera EXCEPT
                               !.distance = Scaled(@, Steps(ev'))]]_vars

\* C11 witness: one notch forward then one notch back from the default
\* camera: the distance is 10 * (1 - 0.05^2) = 9.975.
C11_Witness ==
    /\ ev.kind = "wheel" /\ Accepted(ev) /\ ev.delta = -120
    /\ nops = 2
    /\ camera.distance = Rat(9975, 1000)
    /\ camera.distance # PerspectiveCamera.distance

\* ------------------------------------------------------------------------
\* Claims about the renderable objects (under SpecGeom)
\* ------------------------------------------------------------------------

\* The buffers attached to the vertex array of a pass of an object.
PositionBuffer(o, pass) == gl.buffers[gl.vaos[o.vao[pass]].attrib[1]]
ColorBuffer(o, pass) == gl.buffers[gl.vaos[o.vao[pass]].attrib[2]]

\* A buffer of 3 floats per entry holds n entries.
HasEntries(buffer, n) == Len(buffer) = 3 * n

\* C2 (as claimed): the count of every draw call is the number of vertices
\* uploaded to the position buffer of its pass.
C2_DrawCountIsUploadedCount ==
    \A i \in 1..Len(drawCalls) :
        drawCalls[i].count = Uploaded(gl, drawCalls[i])

HasUnsupportedFace(o) ==
    o.otype # "NetworkObject"
    /\ \E i \in 1..Len(o.mesh.faces) : Len(o.mesh.faces[i]) \notin {3, 4}

\* C4 (as claimed): the init of a mesh with a face of neither 3 nor 4 vertices
\* fails, and then no vertex array or buffer is allocated or recorded on the
\* object.
C4_FailedInitAllocatesNothing ==
    \A i \in 1..Len(objects) :
        (ev.kind = "initializeGL" /\ HasUnsupportedFace(objects[i]))
            => /\ error = "NotImplementedError"
               /\ objects[i].vao = NoVao
               /\ gl.vaos = <<>>
               /\ gl.buffers = <<>>

\* The positions of a quadrilateral (a, b, c, d) split as (a, b, c), (a, c, d).
QuadSplit(f, xyz) ==
    xyz[f[1]] \o xyz[f[2]] \o xyz[f[3]] \o xyz[f[1]] \o xyz[f[3]] \o xyz[f[4]]

RECURSIVE QuadPositions(_, _, _)
QuadPositions(faces, xyz, back) ==
    IF faces = <<>> THEN <<>>
    ELSE LET f == Head(faces)
             g == IF back THEN <<f[4], f[3], f[2], f[1]>> ELSE f
         IN  QuadSplit(g, xyz) \o QuadPositions(Tail(faces), xyz, back)

AllQuads(o) ==
    o.otype # "NetworkObject"
    /\ \A i \in 1..Len(o.mesh.faces) : Len(o.mesh.faces[i]) = 4

\* C7: an initialized mesh of quadrilaterals only has 6 * faceCount position
\* entries (2 * faceCount triangles) in its front pass and as many in its back
\* pass: each (a, b, c, d) as (a, b, c), (a, c, d) in front, and the same split
\* of the reversed face in the back.
C7_QuadsSplitInTwo ==
    \A i \in 1..Len(objects) :
        LET o == objects[i]
            n == Len(o.mesh.faces)
        IN  (AllQuads(o) /\ ~Uninitialized(o))
            => /\ HasEntries(PositionBuffer(o, "front"), 6 * n)
               /\ HasEntries(PositionBuffer(o, "back"), 6 * n)
               /\ PositionBuffer(o, "front")
                    = QuadPositions(o.mesh.faces, o.mesh.xyz, FALSE)
               /\ PositionBuffer(o, "back")
                    = QuadPositions(o.mesh.faces, o.mesh.xyz, TRUE)

\* C7 witness: an initialized mesh of two different quadrilaterals.
C7_Witness ==
    \E i \in 1..Len(objects) :
        /\ AllQuads(objects[i]) /\ ~Uninitialized(objects[i])
        /\ Len(objects[i].mesh.faces) = 2
        /\ objects[i].mesh.faces[1] # objects[i].mesh.faces[2]
        /\ Len(PositionBuffer(objects[i], "back")) = 36

\* The float at index j of the edge positions: coordinate (j-1) % 3 of
\* endpoint ((j-1) % 6) \div 3 of edge (j-1) \div 6.
EdgeFloat(data, j) ==
    data.xyz[data.edges[((j - 1) \div 6) + 1][(((j - 1) % 6) \div 3) + 1]]
            [((j - 1) % 3) + 1]

\* C8: an initialized network of n nodes and e edges has n entries in its node
\* position buffer and 2 * e in its edge position buffer, the two endpoints of
\* each edge in edge order, and as many entries in each colour buffer.
C8_NetworkBufferCounts ==
    \A i \in 1..Len(objects) :
        LET o == objects[i]
            n == Len(o.data.keys)
            e == Len(o.data.edges)
        IN  (o.otype = "NetworkObject" /\ ~Uninitialized(o))
            => /\ HasEntries(PositionBuffer(o, "nodes"), n)
               /\ HasEntries(ColorBuffer(o, "nodes"), n)
               /\ HasEntries(PositionBuffer(o, "edges"), 2 * e)
               /\ HasEntries(ColorBuffer(o, "edges"), 2 * e)
               /\ PositionBuffer(o, "edges")
                    = [j \in 1..(6 * e) |-> EdgeFloat(o.data, j)]

\* C8 witness: an initialized network of the most nodes, with two different
\* edges.
C8_Witness ==
    \E i \in 1..Len(objects) :
        LET o == objects[i]
        IN  /\ o.otype = "NetworkObject" /\ ~Uninitialized(o)
            /\ Len(o.data.keys) = MaxNodes
            /\ Len(o.data.edges) >= 2
            /\ o.data.edges[1] # o.data.edges[2]
            /\ Len(PositionBuffer(o, "edges")) = 6 * Len(o.data.edges)

\* The buffers that some vertex array of the context reads.
Attached(g) ==
    {g.vaos[v].attrib[a] : v \in 1..Len(g.vaos), a \in 1..2} \ {0}

\* The draw passes of an object: the vertex arrays its init makes.
Passes(o) ==
    IF o.otype = "NetworkObject" THEN {"edges", "nodes"}
    ELSE {"front", "back", "edges", "vertices"}

\* C15 (as claimed): the init of an object allocates one position buffer and
\* one colour buffer per draw pass, and every buffer it allocates is attached
\* to a vertex array.
C15_NoOrphanedBuffer ==
    \A i \in 1..Len(objects) :
        (~Uninitialized(objects[i]) /\ ~HasUnsupportedFace(objects[i]))
            => /\ Len(gl.buffers) = 2 * Cardinality(Passes(objects[i]))
               /\ Attached(gl) = 1..Len(gl.buffers)

\* ------------------------------------------------------------------------
\* Claims about a scene of several objects (under SpecScene)
\* ------------------------------------------------------------------------

Keys(objs) == [i \in 1..Len(objs) |-> objs[i].key]

\* The renderable stored under a key.
ObjectOf(key) == objects[CHOOSE i \in 1..Len(objects) : objects[i].key = key]

\* C12 (as claimed): at every draw call of a frame the is_selected uniform is
\* the is_selected flag of the object drawn, and it is false when the frame
\* is over.
C12_UniformMatchesSelection ==
    ev.kind = "paintGL"
        => /\ \A i \in 1..Len(drawCalls) :
                 drawCalls[i].is_selected
                     = ObjectOf(drawCalls[i].obj).is_selected
           /\ ~gl.is_selected

\* C13 (as claimed): an add of a new geometry object appends one entry, an add
\* of a known one keeps the entries and their order, and every frame (that the
\* process survives) calls draw once on each entry, in that order.
C13_DrawOncePerObjectInOrder ==
    [][/\ ev'.kind = "add"
            => \/ Keys(objects') = Keys(objects)
               \/ \E d \in Catalogue :
                     /\ \A i \in 1..Len(objects) : objects[i].key # d.id
                     /\ Keys(objects') = Append(Keys(objects), d.id)
       /\ (ev'.kind = "paintGL" /\ alive') => drawn' = Keys(objects')]_vars

\* C14 (as claimed): every object a frame calls draw on has been initialized.
C14_DrawnObjectsAreInitialized ==
    ev.kind = "paintGL"
        => \A i \in 1..Len(drawn) : ~Uninitialized(ObjectOf(drawn[i]))

====
